---------------------------- MODULE Spec2Model ----------------------------
(***************************************************************************)
(* Model of app.py, the Lattes XML dashboard: the sanitizer                *)
(* limpar_xml_bruto, the extractor parse_curriculo, the education          *)
(* extractor extrair_formacao, and the upload loop with its selection      *)
(* block.                                                                  *)
(*                                                                         *)
(* Text the code compares by suffix, splits or concatenates (tags,         *)
(* attribute values, filenames, labels) is a sequence of one-character     *)
(* strings.  Text inside the sanitizer is a sequence of code points, and   *)
(* its input a sequence of bytes 0..255.  xml.etree's parser is a library: *)
(* a document carries the outcome of ET.fromstring on its sanitized        *)
(* content, either ParseError or an element tree.                          *)
(***************************************************************************)
EXTENDS Integers, Sequences, FiniteSets, TLC

VARIABLES
    content_bytes,       \* limpar_xml_bruto: its argument
    text,                \* limpar_xml_bruto: its local, a sequence of code points
    file_obj,            \* parse_curriculo: its argument (a call on its own)
    parse_out,           \* parse_curriculo: what that call returned and emitted
    uploaded_files,      \* the files st.file_uploader returned
    idx,                 \* position of the upload loop, 1-based
    parsed_cvs,          \* dict: key -> root element
    rows_resumo,         \* list of summary dicts
    errors,              \* st.error calls so far
    warnings,            \* st.warning calls so far
    infos,               \* st.info calls so far
    labels,              \* selection block: list of labels
    ids,                 \* selection block: list of keys
    id_by_label,         \* selection block: dict(zip(labels, ids))
    selected_label,      \* what st.selectbox returned
    cv_root,             \* argument of extrair_formacao
    registros_formacao,  \* result of extrair_formacao
    pc                   \* position in the script or function under study

vars ==
    <<content_bytes, text, file_obj, parse_out, uploaded_files, idx,
      parsed_cvs, rows_resumo, errors, warnings, infos, labels, ids,
      id_by_label, selected_label, cv_root, registros_formacao, pc>>

sanVars ==
    <<content_bytes, text>>

parseVars ==
    <<file_obj, parse_out>>

batchVars ==
    <<uploaded_files, idx, parsed_cvs, rows_resumo, errors, warnings, infos,
      labels, ids, id_by_label, selected_label>>

formVars ==
    <<cv_root, registros_formacao>>

\* Python's None, and the value of a variable not yet assigned
None ==
    [none |-> TRUE]

(***************************************************************************)
(* Bounds                                                                  *)
(***************************************************************************)
\* longest enumerated byte input of the sanitizer
MaxBytes ==
    4

\* most children of an enumerated education block
MaxChildren ==
    3

\* most files in one upload
MaxFiles ==
    3

(***************************************************************************)
(* limpar_xml_bruto                                                        *)
(***************************************************************************)
Amp ==
    38

Hash ==
    35

Semi ==
    59

\* the literal "&amp;" as code points
AmpEntity ==
    <<38, 97, 109, 112, 59>>

\* length in bytes of the UTF-8 sequence a lead byte announces, 0 if the
\* byte cannot start one (continuation bytes, C0, C1, F5..FF)
Utf8Len(b0) ==
    IF b0 < 128 THEN 1
    ELSE IF b0 \in 194..223 THEN 2
    ELSE IF b0 \in 224..239 THEN 3
    ELSE IF b0 \in 240..244 THEN 4
    ELSE 0

IsCont(x) ==
    x \in 128..191

\* a well-formed UTF-8 sequence starts at b[i] (no overlong forms, no
\* surrogates, nothing above U+10FFFF)
Utf8ValidAt(b, i) ==
    LET n == Utf8Len(b[i])
    IN  /\ n > 0
        /\ i + n - 1 <= Len(b)
        /\ \A k \in (i + 1)..(i + n - 1) : IsCont(b[k])
        /\ (b[i] = 224 => b[i + 1] >= 160)
        /\ (b[i] = 237 => b[i + 1] <= 159)
        /\ (b[i] = 240 => b[i + 1] >= 144)
        /\ (b[i] = 244 => b[i + 1] <= 143)

Utf8CodePointAt(b, i) ==
    LET n == Utf8Len(b[i])
    IN  IF n = 1 THEN b[i]
        ELSE IF n = 2 THEN (b[i] - 192) * 64 + (b[i + 1] - 128)
        ELSE IF n = 3 THEN (b[i] - 224) * 4096 + (b[i + 1] - 128) * 64
                           + (b[i + 2] - 128)
        ELSE (b[i] - 240) * 262144 + (b[i + 1] - 128) * 4096
             + (b[i + 2] - 128) * 64 + (b[i + 3] - 128)

RECURSIVE Utf8ValidFrom(_, _)
Utf8ValidFrom(b, i) ==
    IF i > Len(b) THEN TRUE
    ELSE Utf8ValidAt(b, i) /\ Utf8ValidFrom(b, i + Utf8Len(b[i]))

RECURSIVE Utf8TextFrom(_, _)
Utf8TextFrom(b, i) ==
    IF i > Len(b) THEN <<>>
    ELSE <<Utf8CodePointAt(b, i)>> \o Utf8TextFrom(b, i + Utf8Len(b[i]))

\* bytes.decode("latin-1", errors="ignore"): every byte is the code point of
\* the same number, so there is nothing to ignore
Latin1Decode(b) ==
    [i \in 1..Len(b) |-> b[i]]

\* step 1: UTF-8, and Latin-1 when that raises UnicodeDecodeError
Decode(b) ==
    IF Utf8ValidFrom(b, 1) THEN Utf8TextFrom(b, 1) ELSE Latin1Decode(b)

IsForbiddenNoVT(c) ==
    \/ c \in 0..8
    \/ c = 12
    \/ c \in 14..31

\* the character class [\x00-\x08\x0B\x0C\x0E-\x1F]
IsForbidden(c) ==
    \/ c \in 0..8
    \/ c = 11
    \/ c = 12
    \/ c \in 14..31

\* step 2: re.sub(r"[\x00-\x08\x0B\x0C\x0E-\x1F]", "", text)
StripControl(t) ==
    SelectSeq(t, LAMBDA c : ~IsForbidden(c))

\* \w of a str pattern, for the code points up to U+00FF
IsWord(c) ==
    \/ c \in 48..57
    \/ c \in 65..90
    \/ c = 95
    \/ c \in 97..122
    \/ c \in {170, 178, 179, 181, 185, 186, 188, 189, 190}
    \/ c \in 192..214
    \/ c \in 216..246
    \/ c \in 248..255

\* end of the run of \w that starts at j: the first index at or after j that
\* is not a word character, Len(t) + 1 if there is none
RECURSIVE WordRunEnd(_, _)
WordRunEnd(t, j) ==
    IF j <= Len(t) /\ IsWord(t[j]) THEN WordRunEnd(t, j + 1) ELSE j

EntityTailNoHash(t, i) ==
    LET k == WordRunEnd(t, i)
    IN  k > i /\ k <= Len(t) /\ t[k] = Semi

\* #?\w+; matches at i (i is the position right after an ampersand)
EntityTailAt(t, i) ==
    LET j == IF i <= Len(t) /\ t[i] = Hash THEN i + 1 ELSE i
        k == WordRunEnd(t, j)
    IN  k > j /\ k <= Len(t) /\ t[k] = Semi

\* step 3: re.sub(r"&(?!#?\w+;)", "&amp;", text); the lookahead reads the
\* text being scanned, never the replacement
RECURSIVE EscapeFrom(_, _)
EscapeFrom(t, i) ==
    IF i > Len(t) THEN <<>>
    ELSE IF t[i] = Amp /\ ~EntityTailAt(t, i + 1)
         THEN AmpEntity \o EscapeFrom(t, i + 1)
         ELSE <<t[i]>> \o EscapeFrom(t, i + 1)

EscapeAmp(t) ==
    EscapeFrom(t, 1)

limpar_xml_bruto(b) ==
    EscapeAmp(StripControl(Decode(b)))

\* str.encode("utf-8") of one code point
Utf8EncodeChar(c) ==
    IF c < 128 THEN <<c>>
    ELSE IF c < 2048 THEN <<192 + (c \div 64), 128 + (c % 64)>>
    ELSE IF c < 65536
         THEN <<224 + (c \div 4096), 128 + ((c \div 64) % 64), 128 + (c % 64)>>
         ELSE <<240 + (c \div 262144), 128 + ((c \div 4096) % 64),
                128 + ((c \div 64) % 64), 128 + (c % 64)>>

RECURSIVE Utf8EncodeFrom(_, _)
Utf8EncodeFrom(t, i) ==
    IF i > Len(t) THEN <<>>
    ELSE Utf8EncodeChar(t[i]) \o Utf8EncodeFrom(t, i + 1)

Utf8Encode(t) ==
    Utf8EncodeFrom(t, 1)

\* the bytes the enumerated inputs are made of: NUL, VT and US (stripped),
\* TAB (a control code XML allows), '#', '&', ';', 'a', and C3 A9, which is
\* U+00E9 as UTF-8 and two Latin-1 characters when the input is not UTF-8
ByteAlphabet ==
    {0, 9, 11, 35, 38, 59, 97, 169, 195}

RECURSIVE SeqsUpTo(_, _)
SeqsUpTo(S, n) ==
    IF n = 0 THEN {<<>>}
    ELSE LET shorter == SeqsUpTo(S, n - 1)
         IN  shorter \cup {Append(s, x) : s \in shorter, x \in S}

\* "A & B" and "A &amp; B"
BytesAandB ==
    <<65, 32, 38, 32, 66>>

BytesAampB ==
    <<65, 32, 38, 97, 109, 112, 59, 32, 66>>

\* "&#233;&x" and a Latin-1 text with a control code inside an entity
ExampleInputs ==
    {BytesAandB, BytesAampB, <<38, 35, 50, 51, 51, 59, 38, 120>>,
     <<233, 38, 97, 1, 109, 112, 59>>}

SanInputs ==
    SeqsUpTo(ByteAlphabet, MaxBytes) \cup ExampleInputs

(***************************************************************************)
(* Text constants                                                          *)
(***************************************************************************)
GRADUACAO ==
    <<"G", "R", "A", "D", "U", "A", "C", "A", "O">>

ESPECIALIZACAO ==
    <<"E", "S", "P", "E", "C", "I", "A", "L", "I", "Z", "A", "C", "A", "O">>

MESTRADO ==
    <<"M", "E", "S", "T", "R", "A", "D", "O">>

MESTRADO_PROFISSIONALIZANTE ==
    <<"M", "E", "S", "T", "R", "A", "D", "O", "-", "P", "R", "O", "F", "I", "S", "S", "I", "O", "N", "A", "L", "I", "Z", "A", "N", "T", "E">>

DOUTORADO ==
    <<"D", "O", "U", "T", "O", "R", "A", "D", "O">>

POS_DOUTORADO ==
    <<"P", "O", "S", "-", "D", "O", "U", "T", "O", "R", "A", "D", "O">>

LIVRE_DOCENCIA ==
    <<"L", "I", "V", "R", "E", "-", "D", "O", "C", "E", "N", "C", "I", "A">>

RESIDENCIA_MEDICA ==
    <<"R", "E", "S", "I", "D", "E", "N", "C", "I", "A", "-", "M", "E", "D", "I", "C", "A">>

APERFEICOAMENTO ==
    <<"A", "P", "E", "R", "F", "E", "I", "C", "O", "A", "M", "E", "N", "T", "O">>

CURSO_TECNICO_PROFISSIONALIZANTE ==
    <<"C", "U", "R", "S", "O", "-", "T", "E", "C", "N", "I", "C", "O", "-", "P", "R", "O", "F", "I", "S", "S", "I", "O", "N", "A", "L", "I", "Z", "A", "N", "T", "E">>

ENSINO_FUNDAMENTAL_PRIMEIRO_GRAU ==
    <<"E", "N", "S", "I", "N", "O", "-", "F", "U", "N", "D", "A", "M", "E", "N", "T", "A", "L", "-", "P", "R", "I", "M", "E", "I", "R", "O", "-", "G", "R", "A", "U">>

ENSINO_MEDIO_SEGUNDO_GRAU ==
    <<"E", "N", "S", "I", "N", "O", "-", "M", "E", "D", "I", "O", "-", "S", "E", "G", "U", "N", "D", "O", "-", "G", "R", "A", "U">>

CURRICULO_VITAE ==
    <<"C", "U", "R", "R", "I", "C", "U", "L", "O", "-", "V", "I", "T", "A", "E">>

DADOS_GERAIS ==
    <<"D", "A", "D", "O", "S", "-", "G", "E", "R", "A", "I", "S">>

FORMACAO_ACADEMICA_TITULACAO ==
    <<"F", "O", "R", "M", "A", "C", "A", "O", "-", "A", "C", "A", "D", "E", "M", "I", "C", "A", "-", "T", "I", "T", "U", "L", "A", "C", "A", "O">>

SemNome ==
    <<"[", "S", "e", "m", " ", "n", "o", "m", "e", "]">>

\* a namespace in Clark notation, as ElementTree writes qualified tags
NsPrefix ==
    <<"{", "n", "}">>

OUTRO ==
    <<"O", "U", "T", "R", "O">>

FileA ==
    <<"a", ".", "x", "m", "l">>

FileB ==
    <<"b", ".", "x", "m", "l">>

Id123 ==
    <<"1", "2", "3">>

Id456 ==
    <<"4", "5", "6">>

JaneDoe ==
    <<"J", "a", "n", "e", " ", "D", "o", "e">>

\* one value per position, to tell apart the children of an education block
Marker(i) ==
    <<"y", <<"1", "2", "3", "4", "5", "6">>[i]>>

(***************************************************************************)
(* Elements                                                                *)
(***************************************************************************)
\* an xml.etree Element: its tag, its attrib dict and its direct children
Element(tag, attrib, children) ==
    [tag |-> tag, attrib |-> attrib, children |-> children]

\* an attrib dict without entries
NoAttrib ==
    [k \in {} |-> <<>>]

\* what ET.fromstring stands for when it raises ET.ParseError
ParseError ==
    [parse_error |-> TRUE]

\* an uploaded file: uf.name, and ET.fromstring of its sanitized content
UploadedFile(name, xml) ==
    [name |-> name, xml |-> xml]

\* str.endswith
EndsWith(s, suffix) ==
    /\ Len(suffix) <= Len(s)
    /\ SubSeq(s, Len(s) - Len(suffix) + 1, Len(s)) = suffix

\* s.split("}")[-1]: what follows the last "}", all of s when there is none
LastAfterBrace(s) ==
    LET braces == {i \in 1..Len(s) : s[i] = "}"}
    IN  IF braces = {} THEN s
        ELSE LET last == CHOOSE i \in braces : \A j \in braces : j <= i
             IN  SubSeq(s, last + 1, Len(s))

\* dict.get(key, "")
Get(attrib, key) ==
    IF key \in DOMAIN attrib THEN attrib[key] ELSE <<>>

FindLastChild(elem, suffix) ==
    LET hits == {i \in 1..Len(elem.children) :
                    EndsWith(elem.children[i].tag, suffix)}
    IN  IF hits = {} THEN None
        ELSE elem.children[CHOOSE i \in hits : \A j \in hits : j <= i]

\* for child in elem: if child.tag.endswith(suffix): found = child; break
FindChild(elem, suffix) ==
    LET hits == {i \in 1..Len(elem.children) :
                    EndsWith(elem.children[i].tag, suffix)}
    IN  IF hits = {} THEN None
        ELSE elem.children[CHOOSE i \in hits : \A j \in hits : i <= j]

(***************************************************************************)
(* parse_curriculo                                                         *)
(***************************************************************************)
\* the dict built at the end of parse_curriculo
Resumo(f, root, dados_gerais) ==
    LET dg(key) == IF dados_gerais = None THEN <<>>
                   ELSE Get(dados_gerais.attrib, key)
    IN  [c \in {"ID Lattes", "Nome completo", "Nome em citacoes",
                "Nacionalidade", "Pais de nascimento", "Cidade de nascimento",
                "Sexo", "Arquivo"} |->
            CASE c = "ID Lattes" -> Get(root.attrib, "NUMERO-IDENTIFICADOR")
              [] c = "Nome completo" -> dg("NOME-COMPLETO")
              [] c = "Nome em citacoes" -> dg("NOME-EM-CITACOES-BIBLIOGRAFICAS")
              [] c = "Nacionalidade" -> dg("NACIONALIDADE")
              [] c = "Pais de nascimento" -> dg("PAIS-DE-NASCIMENTO")
              [] c = "Cidade de nascimento" -> dg("CIDADE-NASCIMENTO")
              [] c = "Sexo" -> dg("SEXO")
              [] c = "Arquivo" -> f.name]

ParseWarningsRootOnly(f, root, dados_gerais) ==
    LET tag_root == LastAfterBrace(root.tag)
    IN  IF tag_root # CURRICULO_VITAE
        THEN <<[kind |-> "root", file |-> f.name, tag |-> tag_root]>>
        ELSE <<>>

\* the st.warning calls of parse_curriculo, in the order it makes them
ParseWarnings(f, root, dados_gerais) ==
    LET tag_root == LastAfterBrace(root.tag)
    IN  (IF tag_root # CURRICULO_VITAE
         THEN <<[kind |-> "root", file |-> f.name, tag |-> tag_root]>>
         ELSE <<>>)
        \o
        (IF dados_gerais = None
         THEN <<[kind |-> "dados", file |-> f.name]>>
         ELSE <<>>)

ParseFailedSilent(f) ==
    [root |-> None, resumo |-> None, errors |-> <<>>, warnings |-> <<>>]

ParseFailedKeepsGoing(f) ==
    [root |-> f.xml, resumo |-> Resumo(f, Element(<<>>, NoAttrib, <<>>), None),
     errors |-> <<[file |-> f.name]>>, warnings |-> <<>>]

\* the except branch: st.error and return None, None
ParseFailed(f) ==
    [root |-> None, resumo |-> None,
     errors |-> <<[file |-> f.name]>>, warnings |-> <<>>]

\* what a call returns, and the messages it emits on the way
parse_curriculo(f) ==
    IF f.xml = ParseError THEN ParseFailed(f)
    ELSE LET root == f.xml
             dados_gerais == FindChild(root, DADOS_GERAIS)
         IN  [root |-> root,
              resumo |-> Resumo(f, root, dados_gerais),
              errors |-> <<>>,
              warnings |-> ParseWarnings(f, root, dados_gerais)]

(***************************************************************************)
(* extrair_formacao                                                        *)
(***************************************************************************)
niveis ==
    <<GRADUACAO, ESPECIALIZACAO, MESTRADO, MESTRADO_PROFISSIONALIZANTE,
      DOUTORADO, POS_DOUTORADO, LIVRE_DOCENCIA, RESIDENCIA_MEDICA,
      APERFEICOAMENTO, CURSO_TECNICO_PROFISSIONALIZANTE,
      ENSINO_FUNDAMENTAL_PRIMEIRO_GRAU, ENSINO_MEDIO_SEGUNDO_GRAU>>

\* the dict appended for one matching child
Registro(nivel, elem) ==
    [c \in {"Nivel", "Nome do curso", "Instituicao", "Status do curso",
            "Ano inicio", "Ano conclusao", "Possui bolsa",
            "Agencia de fomento"} |->
        CASE c = "Nivel" -> nivel
          [] c = "Nome do curso" -> Get(elem.attrib, "NOME-CURSO")
          [] c = "Instituicao" -> Get(elem.attrib, "NOME-INSTITUICAO")
          [] c = "Status do curso" -> Get(elem.attrib, "STATUS-DO-CURSO")
          [] c = "Ano inicio" -> Get(elem.attrib, "ANO-DE-INICIO")
          [] c = "Ano conclusao" -> Get(elem.attrib, "ANO-DE-CONCLUSAO")
          [] c = "Possui bolsa" -> Get(elem.attrib, "FLAG-BOLSA")
          [] c = "Agencia de fomento" -> Get(elem.attrib, "NOME-AGENCIA")]

\* the inner loop: for elem in formacao, from child i on
RECURSIVE RegistrosDoNivel(_, _, _)
RegistrosDoNivel(formacao, nivel, i) ==
    IF i > Len(formacao.children) THEN <<>>
    ELSE (IF EndsWith(formacao.children[i].tag, nivel)
          THEN <<Registro(nivel, formacao.children[i])>>
          ELSE <<>>)
         \o RegistrosDoNivel(formacao, nivel, i + 1)

\* the outer loop: for nivel in niveis, from level n on
RECURSIVE RegistrosDesde(_, _)
RegistrosDesde(formacao, n) ==
    IF n > Len(niveis) THEN <<>>
    ELSE RegistrosDoNivel(formacao, niveis[n], 1)
         \o RegistrosDesde(formacao, n + 1)

\* one pass over the children, each filed under the first level it matches
RECURSIVE RegistrosEmOrdemDoDocumento(_, _)
RegistrosEmOrdemDoDocumento(formacao, i) ==
    IF i > Len(formacao.children) THEN <<>>
    ELSE LET hits == {n \in 1..Len(niveis) :
                         EndsWith(formacao.children[i].tag, niveis[n])}
         IN  (IF hits = {} THEN <<>>
              ELSE <<Registro(niveis[CHOOSE n \in hits : \A m \in hits : n <= m],
                              formacao.children[i])>>)
             \o RegistrosEmOrdemDoDocumento(formacao, i + 1)

ExtrairEmOrdemDoDocumento(root) ==
    IF root = None THEN <<>>
    ELSE LET formacao == FindChild(root, FORMACAO_ACADEMICA_TITULACAO)
         IN  IF formacao = None THEN <<>>
             ELSE RegistrosEmOrdemDoDocumento(formacao, 1)

extrair_formacao(root) ==
    IF root = None THEN <<>>
    ELSE LET formacao == FindChild(root, FORMACAO_ACADEMICA_TITULACAO)
         IN  IF formacao = None THEN <<>>
             ELSE RegistrosDesde(formacao, 1)

(***************************************************************************)
(* Inputs                                                                  *)
(***************************************************************************)
Attr(key, value) ==
    [k \in {key} |-> value]

\* the tags an enumerated education block draws its children from: the 12
\* levels, one of them namespace-qualified, and a tag that is no level
ChildTags ==
    {niveis[n] : n \in 1..Len(niveis)} \cup {NsPrefix \o DOUTORADO, OUTRO}

\* an education block whose i-th child has the i-th tag and the i-th marker
Formacao(tags) ==
    Element(FORMACAO_ACADEMICA_TITULACAO, NoAttrib,
            [i \in 1..Len(tags) |->
                Element(tags[i], Attr("ANO-DE-INICIO", Marker(i)), <<>>)])

DadosGerais(tag, attrib) ==
    Element(tag, attrib, <<>>)

FullDados ==
    [k \in {"NOME-COMPLETO", "NOME-EM-CITACOES-BIBLIOGRAFICAS",
            "NACIONALIDADE", "PAIS-DE-NASCIMENTO", "CIDADE-NASCIMENTO",
            "SEXO"} |->
        CASE k = "NOME-COMPLETO" -> JaneDoe
          [] k = "NOME-EM-CITACOES-BIBLIOGRAFICAS" -> <<"D", "O", "E">>
          [] k = "NACIONALIDADE" -> <<"B">>
          [] k = "PAIS-DE-NASCIMENTO" -> <<"B", "R">>
          [] k = "CIDADE-NASCIMENTO" -> <<"P", "O", "A">>
          [] k = "SEXO" -> <<"F">>]

\* roots handed to extrair_formacao on its own
FormRoots ==
    {Element(CURRICULO_VITAE, NoAttrib, <<Formacao(tags)>>) :
        tags \in SeqsUpTo(ChildTags, MaxChildren)}
    \cup {Element(CURRICULO_VITAE, NoAttrib, <<>>),
          Element(CURRICULO_VITAE, NoAttrib,
                  <<DadosGerais(DADOS_GERAIS, FullDados),
                    Formacao(<<DOUTORADO, MESTRADO>>),
                    Formacao(<<GRADUACAO>>)>>)}

\* the direct children an enumerated root draws from
RootChildren ==
    {DadosGerais(DADOS_GERAIS, FullDados),
     DadosGerais(DADOS_GERAIS, Attr("SEXO", <<"M">>)),
     DadosGerais(NsPrefix \o DADOS_GERAIS, Attr("NOME-COMPLETO", <<"K">>)),
     DadosGerais(<<"X", "-">> \o DADOS_GERAIS, Attr("NOME-COMPLETO", <<"X">>)),
     Formacao(<<MESTRADO>>),
     Element(OUTRO, Attr("NOME-COMPLETO", <<"N">>), <<>>)}

\* most direct children of an enumerated root
MaxRootChildren ==
    2

\* files handed to parse_curriculo on its own
ParseInputs ==
    {UploadedFile(FileA, ParseError)}
    \cup {UploadedFile(FileA, Element(tag, attrib, children)) :
            tag \in {CURRICULO_VITAE, NsPrefix \o CURRICULO_VITAE, OUTRO},
            attrib \in {NoAttrib, Attr("NUMERO-IDENTIFICADOR", Id123)},
            children \in SeqsUpTo(RootChildren, MaxRootChildren)}

\* the documents of an upload
Tree1 ==
    Element(CURRICULO_VITAE, Attr("NUMERO-IDENTIFICADOR", Id123),
            <<DadosGerais(DADOS_GERAIS, FullDados),
              Formacao(<<MESTRADO, DOUTORADO>>)>>)

Tree2 ==
    Element(NsPrefix \o CURRICULO_VITAE, Attr("NUMERO-IDENTIFICADOR", Id123),
            <<DadosGerais(NsPrefix \o DADOS_GERAIS,
                          Attr("NOME-COMPLETO", <<"K">>)),
              Formacao(<<GRADUACAO>>)>>)

Tree3 ==
    Element(CURRICULO_VITAE, NoAttrib, <<>>)

Tree4 ==
    Element(CURRICULO_VITAE, NoAttrib,
            <<DadosGerais(DADOS_GERAIS, Attr("NOME-COMPLETO", <<"L">>)),
              Formacao(<<POS_DOUTORADO>>)>>)

Tree5 ==
    Element(OUTRO, Attr("NUMERO-IDENTIFICADOR", Id456),
            <<DadosGerais(DADOS_GERAIS, NoAttrib)>>)

Uploads ==
    {UploadedFile(name, xml) :
        name \in {FileA, FileB},
        xml \in {Tree1, Tree2, Tree3, Tree4, Tree5, ParseError}}

(***************************************************************************)
(* The script: upload loop and selection block                             *)
(***************************************************************************)
\* resumo["ID Lattes"] or uf.name, and row["ID Lattes"] or row["Arquivo"]
KeyOf(resumo, name) ==
    IF resumo["ID Lattes"] # <<>> THEN resumo["ID Lattes"] ELSE name

\* f"{row['Nome completo'] or '[Sem nome]'} ({rid})"
LabelOf(row) ==
    (IF row["Nome completo"] # <<>> THEN row["Nome completo"] ELSE SemNome)
    \o <<" ", "(">> \o KeyOf(row, row["Arquivo"]) \o <<")">>

DictSetFirstWins(d, key, value) ==
    IF key \in DOMAIN d THEN d
    ELSE [k \in DOMAIN d \cup {key} |-> IF k = key THEN value ELSE d[k]]

\* d[key] = value
DictSet(d, key, value) ==
    [k \in DOMAIN d \cup {key} |-> IF k = key THEN value ELSE d[k]]

\* d.get(key)
DictGet(d, key) ==
    IF key \in DOMAIN d THEN d[key] ELSE None

\* dict(zip(ks, vs)): a key that occurs twice keeps its last value
DictZip(ks, vs) ==
    [k \in {ks[i] : i \in 1..Len(ks)} |->
        vs[CHOOSE i \in 1..Len(ks) :
              ks[i] = k /\ \A j \in 1..Len(ks) : ks[j] = k => j <= i]]

EmptyDict ==
    [k \in {} |-> None]

SanIdle ==
    content_bytes = <<>> /\ text = <<>>

ParseIdle ==
    file_obj = None /\ parse_out = None

BatchIdle ==
    /\ uploaded_files = <<>>
    /\ idx = 1
    /\ parsed_cvs = EmptyDict
    /\ rows_resumo = <<>>
    /\ errors = <<>>
    /\ warnings = <<>>
    /\ infos = <<>>
    /\ labels = <<>>
    /\ ids = <<>>
    /\ id_by_label = EmptyDict
    /\ selected_label = <<>>

FormIdle ==
    cv_root = None /\ registros_formacao = <<>>

\* the script starts: the uploader has returned, both collections are empty
Init ==
    /\ uploaded_files \in SeqsUpTo(Uploads, MaxFiles)
    /\ idx = 1
    /\ parsed_cvs = EmptyDict
    /\ rows_resumo = <<>>
    /\ errors = <<>>
    /\ warnings = <<>>
    /\ infos = <<>>
    /\ labels = <<>>
    /\ ids = <<>>
    /\ id_by_label = EmptyDict
    /\ selected_label = <<>>
    /\ pc = "loop"
    /\ SanIdle
    /\ ParseIdle
    /\ FormIdle

\* else branch of `if uploaded_files:`
NoFiles ==
    /\ pc = "loop"
    /\ uploaded_files = <<>>
    /\ infos' = Append(infos, [kind |-> "envie"])
    /\ pc' = "done"
    /\ UNCHANGED <<uploaded_files, idx, parsed_cvs, rows_resumo, errors,
                   warnings, labels, ids, id_by_label, selected_label>>
    /\ UNCHANGED <<sanVars, parseVars, formVars>>

\* one iteration of `for uf in uploaded_files`
ProcessFile ==
    /\ pc = "loop"
    /\ idx <= Len(uploaded_files)
    /\ LET uf == uploaded_files[idx]
           out == parse_curriculo(uf)
       IN  /\ errors' = errors \o out.errors
           /\ warnings' = warnings \o out.warnings
           /\ IF out.root # None /\ out.resumo # None
              THEN /\ parsed_cvs' = DictSet(parsed_cvs,
                                            KeyOf(out.resumo, uf.name), out.root)
                   /\ rows_resumo' = Append(rows_resumo, out.resumo)
              ELSE UNCHANGED <<parsed_cvs, rows_resumo>>
    /\ idx' = idx + 1
    /\ UNCHANGED <<uploaded_files, infos, labels, ids, id_by_label,
                   selected_label, pc>>
    /\ UNCHANGED <<sanVars, parseVars, formVars>>

\* the loop is over and `if rows_resumo:` is false
NoRows ==
    /\ pc = "loop"
    /\ uploaded_files # <<>>
    /\ idx > Len(uploaded_files)
    /\ rows_resumo = <<>>
    /\ pc' = "done"
    /\ UNCHANGED batchVars
    /\ UNCHANGED <<sanVars, parseVars, formVars>>

\* the loop is over: the summary table, then labels, ids and id_by_label
ShowResumo ==
    /\ pc = "loop"
    /\ uploaded_files # <<>>
    /\ idx > Len(uploaded_files)
    /\ rows_resumo # <<>>
    /\ labels' = [k \in 1..Len(rows_resumo) |-> LabelOf(rows_resumo[k])]
    /\ ids' = [k \in 1..Len(rows_resumo) |->
                  KeyOf(rows_resumo[k], rows_resumo[k]["Arquivo"])]
    /\ id_by_label' = DictZip(labels', ids')
    /\ pc' = "select"
    /\ UNCHANGED <<uploaded_files, idx, parsed_cvs, rows_resumo, errors,
                   warnings, infos, selected_label>>
    /\ UNCHANGED <<sanVars, parseVars, formVars>>

\* st.selectbox returns one of its options, and `if selected_label:` holds
\* since a label is never empty; then the education table of that one
SelectCurriculo ==
    /\ pc = "select"
    /\ \E label \in {labels[k] : k \in 1..Len(labels)} :
          /\ selected_label' = label
          /\ cv_root' = DictGet(parsed_cvs, id_by_label[label])
    /\ registros_formacao' = extrair_formacao(cv_root')
    /\ infos' = IF registros_formacao' = <<>>
                THEN Append(infos, [kind |-> "nenhuma"])
                ELSE infos
    /\ pc' = "done"
    /\ UNCHANGED <<uploaded_files, idx, parsed_cvs, rows_resumo, errors,
                   warnings, labels, ids, id_by_label>>
    /\ UNCHANGED <<sanVars, parseVars>>

Next ==
    \/ NoFiles
    \/ ProcessFile
    \/ NoRows
    \/ ShowResumo
    \/ SelectCurriculo

Spec ==
    Init /\ [][Next]_vars

\* the script runs top to bottom: a step that can be taken is taken
FairSpec ==
    Spec /\ WF_vars(Next)

(***************************************************************************)
(* limpar_xml_bruto, step by step                                          *)
(***************************************************************************)
InitSan ==
    /\ content_bytes \in SanInputs
    /\ text = <<>>
    /\ pc = "decode"
    /\ ParseIdle
    /\ BatchIdle
    /\ FormIdle

SanDecode ==
    /\ pc = "decode"
    /\ text' = Decode(content_bytes)
    /\ pc' = "strip"
    /\ UNCHANGED <<content_bytes, parseVars, batchVars, formVars>>

SanStrip ==
    /\ pc = "strip"
    /\ text' = StripControl(text)
    /\ pc' = "escape"
    /\ UNCHANGED <<content_bytes, parseVars, batchVars, formVars>>

SanEscape ==
    /\ pc = "escape"
    /\ text' = EscapeAmp(text)
    /\ pc' = "return"
    /\ UNCHANGED <<content_bytes, parseVars, batchVars, formVars>>

NextSan ==
    \/ SanDecode
    \/ SanStrip
    \/ SanEscape

SpecSan ==
    InitSan /\ [][NextSan]_vars

(***************************************************************************)
(* parse_curriculo and extrair_formacao, each called on its own            *)
(***************************************************************************)
InitParse ==
    /\ file_obj \in ParseInputs
    /\ parse_out = None
    /\ pc = "call"
    /\ SanIdle
    /\ BatchIdle
    /\ FormIdle

ParseCall ==
    /\ pc = "call"
    /\ parse_out' = parse_curriculo(file_obj)
    /\ pc' = "return"
    /\ UNCHANGED <<file_obj, sanVars, batchVars, formVars>>

NextParse ==
    ParseCall

SpecParse ==
    InitParse /\ [][NextParse]_vars

InitForm ==
    /\ cv_root \in FormRoots \cup {None}
    /\ registros_formacao = <<>>
    /\ pc = "call"
    /\ SanIdle
    /\ ParseIdle
    /\ BatchIdle

FormCall ==
    /\ pc = "call"
    /\ registros_formacao' = extrair_formacao(cv_root)
    /\ pc' = "return"
    /\ UNCHANGED <<cv_root, sanVars, parseVars, batchVars>>

NextForm ==
    FormCall

SpecForm ==
    InitForm /\ [][NextForm]_vars

(***************************************************************************)
(* Properties of limpar_xml_bruto                                          *)
(***************************************************************************)
\* the code points XML 1.0 forbids: 0x00-0x08, 0x0B, 0x0C, 0x0E-0x1F
ForbiddenCodes ==
    (0..8) \cup {11, 12} \cup (14..31)

\* C8: for any input bytes limpar_xml_bruto returns a string, whether the
\* bytes decode as UTF-8 or fall back to Latin-1: every step can be taken
\* and the result is a sequence of code points; the text holds no forbidden
\* control code once it is stripped, and none after the ampersands are
\* escaped
C8_NoForbiddenControlCodes ==
    /\ pc \in {"decode", "strip", "escape"} => ENABLED NextSan
    /\ pc \in {"escape", "return"} =>
          /\ DOMAIN text = 1..Len(text)
          /\ \A i \in 1..Len(text) :
                text[i] \in 0..1114111 /\ text[i] \notin ForbiddenCodes

\* C8 witness: bytes that are not UTF-8 and hold a forbidden code have been
\* through the three steps, and escaping made the text longer than the input
C8_Witness ==
    /\ pc = "return"
    /\ ~Utf8ValidFrom(content_bytes, 1)
    /\ \E i \in 1..Len(content_bytes) : content_bytes[i] \in ForbiddenCodes
    /\ Len(text) > Len(content_bytes)

\* s[i] is an ampersand that begins &name; or &#name; (name: one or more \w)
BeginsEntity(s, i) ==
    /\ s[i] = Amp
    /\ \E j \in (i + 1)..Len(s) :
          /\ s[j] = Semi
          /\ LET from == IF s[i + 1] = Hash THEN i + 2 ELSE i + 1
             IN  /\ from <= j - 1
                 /\ \A k \in from..(j - 1) : IsWord(s[k])

\* the text the escaping step receives
EscapeInput ==
    StripControl(Decode(content_bytes))

HasFormacao(root) ==
    /\ root # None
    /\ \E i \in 1..Len(root.children) :
          EndsWith(root.children[i].tag, FORMACAO_ACADEMICA_TITULACAO)

FormacaoOf(root) ==
    root.children[CHOOSE i \in 1..Len(root.children) :
        /\ EndsWith(root.children[i].tag, FORMACAO_ACADEMICA_TITULACAO)
        /\ \A j \in 1..(i - 1) :
              ~EndsWith(root.children[j].tag, FORMACAO_ACADEMICA_TITULACAO)]

\* place of a record's level in the priority list
LevelIndex(registro) ==
    CHOOSE n \in 1..Len(niveis) : niveis[n] = registro["Nivel"]

\* place in the block of the child a record was read from
ChildIndex(registro) ==
    CHOOSE p \in 1..6 : Marker(p) = registro["Ano inicio"]

\* the levels of the records, in result order
LevelsOf(registros) ==
    [k \in 1..Len(registros) |-> registros[k]["Nivel"]]

\* C5: the result is ordered by the place of each record's level in the
\* 12-level list, records of one level are in document order, and a block
\* of one MESTRADO and one DOUTORADO child, in either order, gives exactly
\* 2 records, MESTRADO first
C5_OrderedByLevelThenDocument ==
    pc = "return" =>
        /\ \A i, j \in 1..Len(registros_formacao) :
              i < j =>
                LET ri == registros_formacao[i]
                    rj == registros_formacao[j]
                IN  /\ ri["Nivel"] \in {niveis[n] : n \in 1..Len(niveis)}
                    /\ LevelIndex(ri) <= LevelIndex(rj)
                    /\ LevelIndex(ri) = LevelIndex(rj) =>
                          ChildIndex(ri) < ChildIndex(rj)
        /\ (/\ HasFormacao(cv_root)
            /\ [k \in 1..Len(FormacaoOf(cv_root).children) |->
                   FormacaoOf(cv_root).children[k].tag]
                 \in {<<MESTRADO, DOUTORADO>>, <<DOUTORADO, MESTRADO>>})
           => LevelsOf(registros_formacao) = <<MESTRADO, DOUTORADO>>

\* C5 witness: a block with DOUTORADO before MESTRADO has been extracted,
\* and the result lists MESTRADO first
C5_Witness ==
    /\ pc = "return"
    /\ cv_root = Element(CURRICULO_VITAE, NoAttrib,
                         <<Formacao(<<DOUTORADO, MESTRADO>>)>>)
    /\ Len(registros_formacao) = 2
    /\ registros_formacao[1]["Ano inicio"] = Marker(2)

\* C10: every direct child of the education block contributes one record,
\* with its own local tag as level, when that local tag is one of the 12
\* names, and none otherwise, so there are as many records as children with
\* a recognized level
C10_OneRecordPerRecognizedChild ==
    (pc = "return" /\ HasFormacao(cv_root)) =>
        LET kids == FormacaoOf(cv_root).children
            levels == {niveis[n] : n \in 1..Len(niveis)}
            from(p) == {k \in 1..Len(registros_formacao) :
                           registros_formacao[k]["Ano inicio"] = Marker(p)}
            recognized == {p \in 1..Len(kids) :
                              LastAfterBrace(kids[p].tag) \in levels}
        IN  /\ \A p \in 1..Len(kids) :
                  IF p \in recognized
                  THEN /\ Cardinality(from(p)) = 1
                       /\ \A k \in from(p) :
                             registros_formacao[k]["Nivel"]
                               = LastAfterBrace(kids[p].tag)
                  ELSE from(p) = {}
            /\ Len(registros_formacao) = Cardinality(recognized)

(***************************************************************************)
(* Properties of parse_curriculo                                           *)
(***************************************************************************)
\* the six columns read off DADOS-GERAIS, each with its attribute
DadosColumns ==
    {<<"Nome completo", "NOME-COMPLETO">>,
     <<"Nome em citacoes", "NOME-EM-CITACOES-BIBLIOGRAFICAS">>,
     <<"Nacionalidade", "NACIONALIDADE">>,
     <<"Pais de nascimento", "PAIS-DE-NASCIMENTO">>,
     <<"Cidade de nascimento", "CIDADE-NASCIMENTO">>,
     <<"Sexo", "SEXO">>}

\* the direct children of a root whose tag ends in DADOS-GERAIS
DadosHits(root) ==
    {i \in 1..Len(root.children) :
        EndsWith(root.children[i].tag, DADOS_GERAIS)}

\* C6: for a well-formed document parse_curriculo fails nowhere and returns
\* a summary whose identifier is the root's NUMERO-IDENTIFICADOR and whose
\* file column is the file's name; without a child ending in DADOS-GERAIS
\* the six dependent columns are empty, with one each column is the
\* same-named attribute of the first such child, or empty when absent
C6_DadosGeraisFields ==
    (pc = "return" /\ file_obj.xml # ParseError) =>
        LET root == file_obj.xml
            resumo == parse_out.resumo
            hits == DadosHits(root)
        IN  /\ parse_out.errors = <<>>
            /\ parse_out.root = root
            /\ resumo # None
            /\ resumo["ID Lattes"] =
                  (IF "NUMERO-IDENTIFICADOR" \in DOMAIN root.attrib
                   THEN root.attrib["NUMERO-IDENTIFICADOR"] ELSE <<>>)
            /\ resumo["Arquivo"] = file_obj.name
            /\ IF hits = {}
               THEN \A c \in DadosColumns : resumo[c[1]] = <<>>
               ELSE LET first == root.children[
                                   CHOOSE i \in hits : \A j \in hits : i <= j]
                    IN  \A c \in DadosColumns :
                           resumo[c[1]] =
                              (IF c[2] \in DOMAIN first.attrib
                               THEN first.attrib[c[2]] ELSE <<>>)

\* C6 witness: a well-formed document with an identifier and no
\* DADOS-GERAIS child has been parsed
C6_Witness ==
    /\ pc = "return"
    /\ file_obj.xml # ParseError
    /\ DadosHits(file_obj.xml) = {}
    /\ Len(file_obj.xml.children) > 0
    /\ parse_out.resumo["ID Lattes"] = Id123
    /\ parse_out.resumo["Nome completo"] = <<>>

(***************************************************************************)
(* Properties of the upload loop and the selection block                   *)
(***************************************************************************)
\* document i parsed: ET.fromstring gave a tree
Parsed(i) ==
    uploaded_files[i].xml # ParseError

\* the documents among the first n that parsed, in upload order
ParsedUpTo(n) ==
    SelectSeq([i \in 1..n |-> i], Parsed)

\* the identifier document i carries on its root
IdOf(i) ==
    IF "NUMERO-IDENTIFICADOR" \in DOMAIN uploaded_files[i].xml.attrib
    THEN uploaded_files[i].xml.attrib["NUMERO-IDENTIFICADOR"]
    ELSE <<>>

\* identifier, or filename when the identifier is empty
KeyOfDoc(i) ==
    IF IdOf(i) # <<>> THEN IdOf(i) ELSE uploaded_files[i].name

\* the documents the loop has gone through
Processed ==
    1..(idx - 1)

\* C1: rows_resumo holds one row for every document that parsed and none
\* for a document that failed, in upload order: the k-th row carries the
\* filename and the identifier of the k-th parsed document, whatever its
\* other fields; once the loop is over this covers the whole upload
C1_OneRowPerParsedDocument ==
    LET parsed == ParsedUpTo(idx - 1)
    IN  /\ Len(rows_resumo) = Len(parsed)
        /\ \A k \in 1..Len(parsed) :
              /\ rows_resumo[k]["Arquivo"] = uploaded_files[parsed[k]].name
              /\ rows_resumo[k]["ID Lattes"] = IdOf(parsed[k])
        /\ pc # "loop" => idx = Len(uploaded_files) + 1

\* C1 witness: the loop is over an upload with a failed document and a
\* parsed one whose seven extracted fields are all empty, and that one has
\* its row
C1_Witness ==
    /\ pc = "done"
    /\ \E i \in 1..Len(uploaded_files) : ~Parsed(i)
    /\ Len(rows_resumo) >= 2
    /\ \E k \in 1..Len(rows_resumo) :
          \A c \in DOMAIN rows_resumo[k] :
             c # "Arquivo" => rows_resumo[k][c] = <<>>

\* C2: a document that fails to parse gets one error naming its file and
\* (None, None); that step leaves rows_resumo and parsed_cvs as they were
\* and moves on to the next file; and the loop reaches its end for every
\* upload
C2_ParseFailureIsLocal ==
    /\ [][(pc = "loop" /\ idx <= Len(uploaded_files) /\ ~Parsed(idx)) =>
            /\ parse_curriculo(uploaded_files[idx]).root = None
            /\ parse_curriculo(uploaded_files[idx]).resumo = None
            /\ errors' = Append(errors, [file |-> uploaded_files[idx].name])
            /\ rows_resumo' = rows_resumo
            /\ parsed_cvs' = parsed_cvs
            /\ idx' = idx + 1
            /\ pc' = "loop"]_vars
    /\ <>(idx = Len(uploaded_files) + 1 /\ pc = "done")

\* C2 witness: the script is over, a document failed before a later one
\* parsed, and both the error and the row are there
C2_Witness ==
    /\ pc = "done"
    /\ \E i, j \in 1..Len(uploaded_files) : i < j /\ ~Parsed(i) /\ Parsed(j)
    /\ Len(errors) >= 1
    /\ Len(rows_resumo) >= 1

\* what C3 says of every key: parsed_cvs holds exactly the keys of the
\* parsed documents, each with the tree of the last parsed document of
\* that key
LastWins ==
    LET ok == {i \in Processed : Parsed(i)}
    IN  /\ DOMAIN parsed_cvs = {KeyOfDoc(i) : i \in ok}
        /\ \A i \in ok :
              LET last == CHOOSE j \in ok :
                             /\ KeyOfDoc(j) = KeyOfDoc(i)
                             /\ \A m \in ok : KeyOfDoc(m) = KeyOfDoc(i) => m <= j
              IN  parsed_cvs[KeyOfDoc(i)] = uploaded_files[last].xml

\* pairs of parsed documents with empty identifiers and different filenames
EmptyIdPairs ==
    {p \in Processed \X Processed :
        /\ Parsed(p[1]) /\ Parsed(p[2])
        /\ IdOf(p[1]) = <<>> /\ IdOf(p[2]) = <<>>
        /\ uploaded_files[p[1]].name # uploaded_files[p[2]].name}

\* C3 as stated: keys are identifier or filename, the last parsed document
\* of a key holds its entry, and two documents with empty identifiers and
\* different filenames sit under two distinct keys, each mapped to its own
\* tree
C3_EachMappedToItsOwnTree ==
    /\ LastWins
    /\ \A p \in EmptyIdPairs :
          /\ KeyOfDoc(p[1]) # KeyOfDoc(p[2])
          /\ parsed_cvs[uploaded_files[p[1]].name] = uploaded_files[p[1]].xml
          /\ parsed_cvs[uploaded_files[p[2]].name] = uploaded_files[p[2]].xml

\* C3 amended: as above, but each of the two is mapped to its own tree only
\* as long as no later parsed document has the same key
C3_LastWinsDistinctKeys ==
    /\ LastWins
    /\ \A p \in EmptyIdPairs :
          /\ KeyOfDoc(p[1]) = uploaded_files[p[1]].name
          /\ KeyOfDoc(p[2]) = uploaded_files[p[2]].name
          /\ KeyOfDoc(p[1]) # KeyOfDoc(p[2])
          /\ {KeyOfDoc(p[1]), KeyOfDoc(p[2])} \subseteq DOMAIN parsed_cvs
          /\ \A q \in {p[1], p[2]} :
                (\A m \in Processed :
                    (m > q /\ Parsed(m)) => KeyOfDoc(m) # KeyOfDoc(q))
                => parsed_cvs[KeyOfDoc(q)] = uploaded_files[q].xml

\* C3 witness: two documents without identifier and with different
\* filenames are stored under their filenames, one of them by its own tree,
\* the other overwritten by a later document of the same key
C3_Witness ==
    /\ pc = "done"
    /\ \E p \in EmptyIdPairs :
          /\ parsed_cvs[uploaded_files[p[1]].name] = uploaded_files[p[1]].xml
          /\ parsed_cvs[uploaded_files[p[2]].name] # uploaded_files[p[2]].xml

\* C4: for every row of the summary table the label built for it maps to
\* the key of the row's document, the tree stored under that key is the
\* tree of that document, and so the education table of a selected row is
\* extracted from the row's own document
C4_RowSelectsItsOwnDocument ==
    pc \in {"select", "done"} =>
        \A k \in 1..Len(labels) :
            LET own == uploaded_files[ParsedUpTo(Len(uploaded_files))[k]]
                fetched == DictGet(parsed_cvs, id_by_label[labels[k]])
            IN  /\ labels[k] = LabelOf(rows_resumo[k])
                /\ id_by_label[labels[k]]
                     = KeyOf(rows_resumo[k], rows_resumo[k]["Arquivo"])
                /\ fetched = own.xml
                /\ extrair_formacao(fetched) = extrair_formacao(own.xml)

\* the parsed documents gone through whose root is not CURRICULO-VITAE, and
\* those without a child ending in DADOS-GERAIS
RootMismatches ==
    {i \in Processed :
        Parsed(i) /\ LastAfterBrace(uploaded_files[i].xml.tag) # CURRICULO_VITAE}

DadosMissing ==
    {i \in Processed : Parsed(i) /\ DadosHits(uploaded_files[i].xml) = {}}

\* warnings of one kind about one file
WarningsOf(kind, name) ==
    {k \in 1..Len(warnings) :
        warnings[k].kind = kind /\ warnings[k].file = name}

\* what C7 says of the root and of DADOS-GERAIS: each parsed document with
\* a root mismatch has its warning, each without DADOS-GERAIS has its
\* warning, all of them keep their row, and the loop goes on
WarnedAndKept ==
    /\ \A name \in {uploaded_files[i].name : i \in 1..Len(uploaded_files)} :
          /\ Cardinality(WarningsOf("root", name))
               = Cardinality({i \in RootMismatches :
                                 uploaded_files[i].name = name})
          /\ Cardinality(WarningsOf("dados", name))
               = Cardinality({i \in DadosMissing :
                                 uploaded_files[i].name = name})
    /\ Len(rows_resumo) = Cardinality({i \in Processed : Parsed(i)})
    /\ \A i \in DadosMissing :
          \E k \in 1..Len(rows_resumo) :
             /\ rows_resumo[k]["Arquivo"] = uploaded_files[i].name
             /\ rows_resumo[k]["Nome completo"] = <<>>
    /\ (pc = "loop" /\ idx <= Len(uploaded_files)) => ENABLED ProcessFile

\* the selected document has been extracted and has no education block
SelectedWithoutFormacao ==
    /\ pc = "done"
    /\ selected_label # <<>>
    /\ ~HasFormacao(cv_root)

\* C7 as stated: root mismatch, missing DADOS-GERAIS and missing education
\* block each produce a warning, and none of them stops anything
C7_EveryConditionWarns ==
    /\ WarnedAndKept
    /\ SelectedWithoutFormacao =>
          /\ registros_formacao = <<>>
          /\ \E k \in 1..Len(warnings) : warnings[k].kind \notin {"root", "dados"}

\* C7 amended: root mismatch and missing DADOS-GERAIS each produce a
\* warning and stop nothing; a missing education block gives an empty list
\* and the notice that nothing was found, and no warning
C7_WarningsOnlyFromParse ==
    /\ WarnedAndKept
    /\ \A k \in 1..Len(warnings) : warnings[k].kind \in {"root", "dados"}
    /\ SelectedWithoutFormacao =>
          /\ registros_formacao = <<>>
          /\ \E k \in 1..Len(infos) : infos[k].kind = "nenhuma"

\* C7 witness: the script is over an upload that drew a root warning and a
\* DADOS-GERAIS warning, every document has its row, and the selected one
\* has no education block
C7_Witness ==
    /\ SelectedWithoutFormacao
    /\ \E k \in 1..Len(warnings) : warnings[k].kind = "root"
    /\ \E k \in 1..Len(warnings) : warnings[k].kind = "dados"
    /\ Len(rows_resumo) = Len(uploaded_files)
    /\ registros_formacao = <<>>

=============================================================================
